---- MODULE Spec2Model ----
(***************************************************************************)
(* Model of zellij-utils/src/data.rs: the value types exchanged between    *)
(* the zellij host and its plugins, and the pure functions over them.      *)
(*                                                                         *)
(* Every operation of data.rs is a pure function.  The state machine       *)
(* below records one call at a time: `op` names the function that was      *)
(* called last, `arg` holds its inputs and `res` the value it returned.    *)
(*                                                                         *)
(* Rust values are represented as follows:                                 *)
(*   - an enum value is a tuple <<VariantName, payload...>>, so that the   *)
(*     variant tag is compared first;                                      *)
(*   - a fieldless enum (InputMode, ThemeHue, Direction, ...) is the name  *)
(*     of its variant;                                                     *)
(*   - a struct is a record with the declared field names;                 *)
(*   - a Vec is a sequence, a String / &str / char is a string;            *)
(*   - Option and Result are <<"Some", v>>, <<"None">>, <<"Ok", v>>,       *)
(*     <<"Err", e>>.                                                       *)
(***************************************************************************)
EXTENDS Integers, Sequences, FiniteSets, TLC

VARIABLES op, arg, res

vars == <<op, arg, res>>

(***************************************************************************)
(* Bounds of the model and widths of the program's integer types.          *)
(***************************************************************************)
\* client ids 0..MaxClientId are tried (together with the largest u16)
MaxClientId == 14
\* palettes whose slots hold EightBit(slot index + k), k in 0..MaxPaletteShift
MaxPaletteShift == 2
\* longest KeybindsVec handed to the keybind lookup
MaxKeybinds == 3
\* F(0)..F(MaxCmpF) take part in the comparisons (together with F(255))
MaxCmpF == 2

\* ClientId = u16
U16Max == 65535
\* Key::F(u8)
U8Max == 255

Some(v) == <<"Some", v>>
None == <<"None">>
Ok(v) == <<"Ok", v>>
Err(e) == <<"Err", e>>

(***************************************************************************)
(* Color model                                                             *)
(***************************************************************************)
EightBit(n) == <<"EightBit", n>>
Rgb(r, g, b) == <<"Rgb", <<r, g, b>>>>

\* with a fault: the first declared variant, as #[derive(Default)] would pick
ThemeHue_default_first == "Light"

ThemeHue_default == "Dark"

PaletteColor_default == EightBit(0)

PaletteSource_default == "Default"

\* the fields of struct Palette, in declaration order
PaletteFields ==
    << "source", "theme_hue", "fg", "bg", "black", "red", "green", "yellow",
       "blue", "magenta", "cyan", "white", "orange", "gray", "purple", "gold",
       "silver", "pink", "brown" >>

\* the type of each field of struct Palette
PaletteFieldType(f) ==
    CASE f = "source" -> "PaletteSource"
      [] f = "theme_hue" -> "ThemeHue"
      [] OTHER -> "PaletteColor"

\* #[derive(Default)] on Palette: every field is its type's default
Palette_default ==
    [ f \in { PaletteFields[i] : i \in 1..Len(PaletteFields) } |->
        CASE PaletteFieldType(f) = "PaletteSource" -> PaletteSource_default
          [] PaletteFieldType(f) = "ThemeHue" -> ThemeHue_default
          [] OTHER -> PaletteColor_default ]

\* #[derive(Default)] on Style
Style_default == [ colors |-> Palette_default, rounded_corners |-> FALSE ]

PluginCapabilities_default == [ arrow_fonts |-> TRUE ]

InputMode_default == "Normal"

\* #[derive(Default)] on ModeInfo
ModeInfo_default ==
    [ mode |-> InputMode_default,
      keybinds |-> << >>,
      style |-> Style_default,
      capabilities |-> PluginCapabilities_default,
      session_name |-> None ]

\* a palette whose colour slots are pairwise different: slot i holds
\* EightBit(i + k)
ShiftPalette(k) ==
    [ f \in { PaletteFields[i] : i \in 1..Len(PaletteFields) } |->
        CASE PaletteFieldType(f) = "PaletteSource" -> "Xresources"
          [] PaletteFieldType(f) = "ThemeHue" -> "Light"
          [] OTHER ->
               EightBit(((CHOOSE i \in 1..Len(PaletteFields) : PaletteFields[i] = f) + k)
                          % (U8Max + 1)) ]

\* a palette of RGB colours, pairwise different as well
RgbPalette ==
    [ f \in { PaletteFields[i] : i \in 1..Len(PaletteFields) } |->
        CASE PaletteFieldType(f) = "PaletteSource" -> "Default"
          [] PaletteFieldType(f) = "ThemeHue" -> "Dark"
          [] OTHER ->
               LET i == CHOOSE j \in 1..Len(PaletteFields) : PaletteFields[j] = f
               IN  Rgb(i, U8Max - i, (7 * i) % (U8Max + 1)) ]

Palettes ==
    { Palette_default, RgbPalette } \cup { ShiftPalette(k) : k \in 0..MaxPaletteShift }

ClientIds == (0..MaxClientId) \cup { U16Max - 1, U16Max }

(***************************************************************************)
(* Client color assignment                                                 *)
(***************************************************************************)
\* with a fault: the table indexed from 0 instead of 1
client_id_to_colors_zero_based(client_id, colors) ==
    CASE client_id = 0 -> Some(<<colors.magenta, colors.black>>)
      [] client_id = 1 -> Some(<<colors.blue, colors.black>>)
      [] client_id = 2 -> Some(<<colors.purple, colors.black>>)
      [] client_id = 3 -> Some(<<colors.yellow, colors.black>>)
      [] client_id = 4 -> Some(<<colors.cyan, colors.black>>)
      [] client_id = 5 -> Some(<<colors.gold, colors.black>>)
      [] client_id = 6 -> Some(<<colors.red, colors.black>>)
      [] client_id = 7 -> Some(<<colors.silver, colors.black>>)
      [] client_id = 8 -> Some(<<colors.pink, colors.black>>)
      [] client_id = 9 -> Some(<<colors.brown, colors.black>>)
      [] OTHER -> None

client_id_to_colors(client_id, colors) ==
    CASE client_id = 1 -> Some(<<colors.magenta, colors.black>>)
      [] client_id = 2 -> Some(<<colors.blue, colors.black>>)
      [] client_id = 3 -> Some(<<colors.purple, colors.black>>)
      [] client_id = 4 -> Some(<<colors.yellow, colors.black>>)
      [] client_id = 5 -> Some(<<colors.cyan, colors.black>>)
      [] client_id = 6 -> Some(<<colors.gold, colors.black>>)
      [] client_id = 7 -> Some(<<colors.red, colors.black>>)
      [] client_id = 8 -> Some(<<colors.silver, colors.black>>)
      [] client_id = 9 -> Some(<<colors.pink, colors.black>>)
      [] client_id = 10 -> Some(<<colors.brown, colors.black>>)
      [] OTHER -> None

single_client_color(colors) == <<colors.green, colors.black>>

(***************************************************************************)
(* Key / input model                                                       *)
(***************************************************************************)
\* the characters the model draws Key payloads from: the three characters
\* Display treats specially and printable ones around them
Chars == { "\n", "\t", " ", "+", "0", "A", "L", "U", "a", "u", "z" }

\* the Unicode scalar value of a character: Rust orders char by it
CharCode(c) ==
    CASE c = "\t" -> 9
      [] c = "\n" -> 10
      [] c = " " -> 32
      [] c = "+" -> 43
      [] c = "0" -> 48
      [] c = "A" -> 65
      [] c = "L" -> 76
      [] c = "U" -> 85
      [] c = "a" -> 97
      [] c = "u" -> 117
      [] c = "z" -> 122

\* enum Direction, in declaration order
DirectionVariants == << "Left", "Right", "Up", "Down" >>

Directions == { DirectionVariants[i] : i \in 1..Len(DirectionVariants) }

\* enum CharOrArrow, in declaration order
CharOrArrowVariants == << "Char", "Direction" >>

CharOrArrows ==
    { <<"Char", c>> : c \in Chars } \cup { <<"Direction", d>> : d \in Directions }

\* with a fault: the arrow keys of Key in the order enum Direction declares them
KeyVariants_direction_order ==
    << "PageDown", "PageUp", "Left", "Right", "Up", "Down", "Home", "End",
       "Backspace", "Delete", "Insert", "F", "Char", "Alt", "Ctrl", "BackTab",
       "Null", "Esc" >>

\* enum Key, in declaration order
KeyVariants ==
    << "PageDown", "PageUp", "Left", "Down", "Up", "Right", "Home", "End",
       "Backspace", "Delete", "Insert", "F", "Char", "Alt", "Ctrl", "BackTab",
       "Null", "Esc" >>

\* the variants of Key that carry no payload
UnitKeys ==
    { <<KeyVariants[i]>> : i \in { j \in 1..Len(KeyVariants) :
                                     KeyVariants[j] \notin {"F", "Char", "Alt", "Ctrl"} } }

\* every Key over the model's characters
Keys ==
    UnitKeys
      \cup { <<"F", n>> : n \in 0..U8Max }
      \cup { <<"Char", c>> : c \in Chars }
      \cup { <<"Alt", x>> : x \in CharOrArrows }
      \cup { <<"Ctrl", c>> : c \in Chars }

\* one decimal digit
Digit(d) ==
    CASE d = 0 -> "0" [] d = 1 -> "1" [] d = 2 -> "2" [] d = 3 -> "3"
      [] d = 4 -> "4" [] d = 5 -> "5" [] d = 6 -> "6" [] d = 7 -> "7"
      [] d = 8 -> "8" [] d = 9 -> "9"

\* "{}" of a u8: its decimal digits, no sign, no padding
RECURSIVE Display_u8(_)
Display_u8(n) ==
    IF n < 10 THEN Digit(n) ELSE Display_u8(n \div 10) \o Digit(n % 10)

Display_Direction(d) ==
    CASE d = "Left" -> "←"
      [] d = "Right" -> "→"
      [] d = "Up" -> "↑"
      [] d = "Down" -> "↓"

RECURSIVE Display_Key(_)

Display_CharOrArrow(x) ==
    CASE x[1] = "Char" -> Display_Key(<<"Char", x[2]>>)
      [] x[1] = "Direction" -> Display_Direction(x[2])

\* with a fault: Ctrl writes its character with "{}" instead of as a Key::Char
Display_Key_raw_ctrl(key) ==
    CASE key[1] = "Backspace" -> "BACKSPACE"
      [] key[1] = "Left" -> Display_Direction("Left")
      [] key[1] = "Right" -> Display_Direction("Right")
      [] key[1] = "Up" -> Display_Direction("Up")
      [] key[1] = "Down" -> Display_Direction("Down")
      [] key[1] = "Home" -> "HOME"
      [] key[1] = "End" -> "END"
      [] key[1] = "PageUp" -> "PgUp"
      [] key[1] = "PageDown" -> "PgDn"
      [] key[1] = "BackTab" -> "TAB"
      [] key[1] = "Delete" -> "DEL"
      [] key[1] = "Insert" -> "INS"
      [] key[1] = "F" -> "F" \o Display_u8(key[2])
      [] key[1] = "Char" ->
           ( CASE key[2] = "\n" -> "ENTER"
               [] key[2] = "\t" -> "TAB"
               [] key[2] = " " -> "SPACE"
               [] OTHER -> key[2] )
      [] key[1] = "Alt" -> "Alt+" \o Display_CharOrArrow(key[2])
      [] key[1] = "Ctrl" -> "Ctrl+" \o key[2]
      [] key[1] = "Null" -> "NULL"
      [] key[1] = "Esc" -> "ESC"

Display_Key(key) ==
    CASE key[1] = "Backspace" -> "BACKSPACE"
      [] key[1] = "Left" -> Display_Direction("Left")
      [] key[1] = "Right" -> Display_Direction("Right")
      [] key[1] = "Up" -> Display_Direction("Up")
      [] key[1] = "Down" -> Display_Direction("Down")
      [] key[1] = "Home" -> "HOME"
      [] key[1] = "End" -> "END"
      [] key[1] = "PageUp" -> "PgUp"
      [] key[1] = "PageDown" -> "PgDn"
      [] key[1] = "BackTab" -> "TAB"
      [] key[1] = "Delete" -> "DEL"
      [] key[1] = "Insert" -> "INS"
      [] key[1] = "F" -> "F" \o Display_u8(key[2])
      [] key[1] = "Char" ->
           ( CASE key[2] = "\n" -> "ENTER"
               [] key[2] = "\t" -> "TAB"
               [] key[2] = " " -> "SPACE"
               [] OTHER -> key[2] )
      [] key[1] = "Alt" -> "Alt+" \o Display_CharOrArrow(key[2])
      [] key[1] = "Ctrl" -> "Ctrl+" \o Display_Key(<<"Char", key[2]>>)
      [] key[1] = "Null" -> "NULL"
      [] key[1] = "Esc" -> "ESC"

\* the position of a variant in its enum's declaration (the discriminant)
Discriminant(variants, name) ==
    CHOOSE i \in 1..Len(variants) : variants[i] = name

\* Ord on integers and on char
cmp_int(a, b) ==
    IF a < b THEN "Less" ELSE IF a > b THEN "Greater" ELSE "Equal"

\* #[derive(PartialOrd, Ord)] on Direction: by discriminant
Direction_cmp(a, b) ==
    cmp_int(Discriminant(DirectionVariants, a), Discriminant(DirectionVariants, b))

\* #[derive(PartialOrd, Ord)] on CharOrArrow: by discriminant, then by payload
CharOrArrow_cmp(a, b) ==
    LET da == Discriminant(CharOrArrowVariants, a[1])
        db == Discriminant(CharOrArrowVariants, b[1])
    IN  IF da # db THEN cmp_int(da, db)
        ELSE IF a[1] = "Char" THEN cmp_int(CharCode(a[2]), CharCode(b[2]))
        ELSE Direction_cmp(a[2], b[2])

\* #[derive(PartialOrd, Ord)] on Key: by discriminant, then by payload
Key_cmp(a, b) ==
    LET da == Discriminant(KeyVariants, a[1])
        db == Discriminant(KeyVariants, b[1])
    IN  IF da # db THEN cmp_int(da, db)
        ELSE CASE a[1] = "F" -> cmp_int(a[2], b[2])
               [] a[1] = "Char" -> cmp_int(CharCode(a[2]), CharCode(b[2]))
               [] a[1] = "Alt" -> CharOrArrow_cmp(a[2], b[2])
               [] a[1] = "Ctrl" -> cmp_int(CharCode(a[2]), CharCode(b[2]))
               [] OTHER -> "Equal"

\* the keys that are compared with each other
CmpChars == { "\n", " ", "A", "a" }

CmpKeys ==
    UnitKeys
      \cup { <<"F", n>> : n \in (0..MaxCmpF) \cup {U8Max} }
      \cup { <<"Char", c>> : c \in CmpChars }
      \cup { <<"Alt", <<"Char", c>>>> : c \in CmpChars }
      \cup { <<"Alt", <<"Direction", d>>>> : d \in Directions }
      \cup { <<"Ctrl", c>> : c \in CmpChars }

(***************************************************************************)
(* Mode model                                                              *)
(***************************************************************************)
\* enum InputMode, in declaration order
InputModeVariants ==
    << "Normal", "Locked", "Resize", "Pane", "Tab", "Scroll", "EnterSearch",
       "Search", "RenameTab", "RenamePane", "Session", "Move", "Prompt", "Tmux" >>

InputModes == { InputModeVariants[i] : i \in 1..Len(InputModeVariants) }

\* #[serde(alias = "...")] of each variant of InputMode
serde_alias(mode) ==
    CASE mode = "Normal" -> "normal"
      [] mode = "Locked" -> "locked"
      [] mode = "Resize" -> "resize"
      [] mode = "Pane" -> "pane"
      [] mode = "Tab" -> "tab"
      [] mode = "Scroll" -> "scroll"
      [] mode = "EnterSearch" -> "entersearch"
      [] mode = "Search" -> "search"
      [] mode = "RenameTab" -> "renametab"
      [] mode = "RenamePane" -> "renamepane"
      [] mode = "Session" -> "session"
      [] mode = "Move" -> "move"
      [] mode = "Prompt" -> "prompt"
      [] mode = "Tmux" -> "tmux"

\* #[derive(Deserialize)] on InputMode: a variant is named by its identifier
\* or by its alias; any other string is an unknown variant
InputMode_deserialize(s) ==
    IF \E m \in InputModes : s = m \/ s = serde_alias(m)
    THEN Ok(CHOOSE m \in InputModes : s = m \/ s = serde_alias(m))
    ELSE Err("unknown variant")

\* with a fault: an unrecognized string falls back to the default mode
from_str_default_fallback(s) ==
    CASE s = "normal" -> Ok("Normal")
      [] s = "resize" -> Ok("Resize")
      [] s = "locked" -> Ok("Locked")
      [] s = "pane" -> Ok("Pane")
      [] s = "tab" -> Ok("Tab")
      [] s = "scroll" -> Ok("Scroll")
      [] s = "search" -> Ok("Search")
      [] s = "entersearch" -> Ok("EnterSearch")
      [] s = "renametab" -> Ok("RenameTab")
      [] s = "session" -> Ok("Session")
      [] s = "move" -> Ok("Move")
      [] s = "tmux" -> Ok("Tmux")
      [] s = "prompt" -> Ok("Prompt")
      [] s = "renamepane" -> Ok("RenamePane")
      [] OTHER -> Ok(InputMode_default)

\* with a fault: the arm of the mode added last is missing
from_str_without_renamepane(s) ==
    CASE s = "normal" -> Ok("Normal")
      [] s = "resize" -> Ok("Resize")
      [] s = "locked" -> Ok("Locked")
      [] s = "pane" -> Ok("Pane")
      [] s = "tab" -> Ok("Tab")
      [] s = "scroll" -> Ok("Scroll")
      [] s = "search" -> Ok("Search")
      [] s = "entersearch" -> Ok("EnterSearch")
      [] s = "renametab" -> Ok("RenameTab")
      [] s = "session" -> Ok("Session")
      [] s = "move" -> Ok("Move")
      [] s = "tmux" -> Ok("Tmux")
      [] s = "prompt" -> Ok("Prompt")
      [] OTHER -> Err(s)

\* with a fault: the arms of the two search modes are swapped
from_str_search_swapped(s) ==
    CASE s = "normal" -> Ok("Normal")
      [] s = "resize" -> Ok("Resize")
      [] s = "locked" -> Ok("Locked")
      [] s = "pane" -> Ok("Pane")
      [] s = "tab" -> Ok("Tab")
      [] s = "scroll" -> Ok("Scroll")
      [] s = "search" -> Ok("EnterSearch")
      [] s = "entersearch" -> Ok("Search")
      [] s = "renametab" -> Ok("RenameTab")
      [] s = "session" -> Ok("Session")
      [] s = "move" -> Ok("Move")
      [] s = "tmux" -> Ok("Tmux")
      [] s = "prompt" -> Ok("Prompt")
      [] s = "renamepane" -> Ok("RenamePane")
      [] OTHER -> Err(s)

\* impl FromStr for InputMode
from_str(s) ==
    CASE s = "normal" -> Ok("Normal")
      [] s = "resize" -> Ok("Resize")
      [] s = "locked" -> Ok("Locked")
      [] s = "pane" -> Ok("Pane")
      [] s = "tab" -> Ok("Tab")
      [] s = "scroll" -> Ok("Scroll")
      [] s = "search" -> Ok("Search")
      [] s = "entersearch" -> Ok("EnterSearch")
      [] s = "renametab" -> Ok("RenameTab")
      [] s = "session" -> Ok("Session")
      [] s = "move" -> Ok("Move")
      [] s = "tmux" -> Ok("Tmux")
      [] s = "prompt" -> Ok("Prompt")
      [] s = "renamepane" -> Ok("RenamePane")
      [] OTHER -> Err(s)

\* with a fault: the scan keeps going, so the last matching entry wins (as
\* collecting the pairs into a map would do)
RECURSIVE keybinds_scan_last(_, _, _)
keybinds_scan_last(keybinds, i, mode) ==
    IF i < 1 THEN << >>
    ELSE IF mode = keybinds[i][1] THEN keybinds[i][2]
    ELSE keybinds_scan_last(keybinds, i - 1, mode)

get_keybinds_for_mode_last_match(self, mode) ==
    keybinds_scan_last(self.keybinds, Len(self.keybinds), mode)

\* the for loop of get_keybinds_for_mode, from entry i on
RECURSIVE keybinds_scan(_, _, _)
keybinds_scan(keybinds, i, mode) ==
    IF i > Len(keybinds) THEN << >>
    ELSE IF mode = keybinds[i][1] THEN keybinds[i][2]
    ELSE keybinds_scan(keybinds, i + 1, mode)

get_keybinds_for_mode(self, mode) == keybinds_scan(self.keybinds, 1, mode)

get_mode_keybinds(self) == get_keybinds_for_mode(self, self.mode)

\* the modes and the bindings the KeybindsVecs of the model are built from;
\* Action is opaque to data.rs and is represented by a name
KeybindModes == { "Normal", "Pane", "Tmux" }

KeybindMaps ==
    { << >>,
      << <<<<"Char", "a">>, <<"Quit">>>> >>,
      << <<<<"Ctrl", "a">>, <<"NewPane", "Quit">>>>, <<<<"Esc">>, << >>>> >> }

RECURSIVE SeqsUpTo(_, _)
SeqsUpTo(S, n) ==
    IF n = 0 THEN { << >> }
    ELSE LET shorter == SeqsUpTo(S, n - 1)
         IN  shorter \cup { Append(q, e) : q \in { t \in shorter : Len(t) = n - 1 }, e \in S }

KeybindsVecs == SeqsUpTo(KeybindModes \X KeybindMaps, MaxKeybinds)

\* the current mode may be one that has no entry at all
ModeInfos ==
    { [ mode |-> m,
        keybinds |-> k,
        style |-> Style_default,
        capabilities |-> PluginCapabilities_default,
        session_name |-> None ] : m \in KeybindModes \cup { "Locked" }, k \in KeybindsVecs }

(***************************************************************************)
(* Event model                                                             *)
(***************************************************************************)
\* enum Event, in declaration order; EnumDiscriminants gives EventType the
\* same variants in the same order
EventVariants ==
    << "ModeUpdate", "TabUpdate", "Key", "Mouse", "Timer", "CopyToClipboard",
       "SystemClipboardFailure", "InputReceived", "Visible" >>

\* a value of EventType: a fieldless enum, identified by its discriminant
EventType(i) == <<"EventType", i>>

EventTypes == { EventType(i - 1) : i \in 1..Len(EventVariants) }

\* with a fault: the two clipboard events are taken for one another
EventType_from_clipboard_mixed(event) ==
    CASE event[1] = "ModeUpdate" -> EventType(0)
      [] event[1] = "TabUpdate" -> EventType(1)
      [] event[1] = "Key" -> EventType(2)
      [] event[1] = "Mouse" -> EventType(3)
      [] event[1] = "Timer" -> EventType(4)
      [] event[1] = "CopyToClipboard" -> EventType(6)
      [] event[1] = "SystemClipboardFailure" -> EventType(5)
      [] event[1] = "InputReceived" -> EventType(7)
      [] event[1] = "Visible" -> EventType(8)

\* impl From<Event> for EventType, generated by EnumDiscriminants: one arm per
\* variant, the payload ignored
EventType_from(event) ==
    CASE event[1] = "ModeUpdate" -> EventType(0)
      [] event[1] = "TabUpdate" -> EventType(1)
      [] event[1] = "Key" -> EventType(2)
      [] event[1] = "Mouse" -> EventType(3)
      [] event[1] = "Timer" -> EventType(4)
      [] event[1] = "CopyToClipboard" -> EventType(5)
      [] event[1] = "SystemClipboardFailure" -> EventType(6)
      [] event[1] = "InputReceived" -> EventType(7)
      [] event[1] = "Visible" -> EventType(8)

\* the name of an EventType, as its derived Debug and Serialize give it: the
\* identifier of the variant
EventType_name(t) == EventVariants[t[2] + 1]

\* impl FromStr for EventType, generated by EnumString
EventType_from_str(s) ==
    CASE s = "ModeUpdate" -> Ok(EventType(0))
      [] s = "TabUpdate" -> Ok(EventType(1))
      [] s = "Key" -> Ok(EventType(2))
      [] s = "Mouse" -> Ok(EventType(3))
      [] s = "Timer" -> Ok(EventType(4))
      [] s = "CopyToClipboard" -> Ok(EventType(5))
      [] s = "SystemClipboardFailure" -> Ok(EventType(6))
      [] s = "InputReceived" -> Ok(EventType(7))
      [] s = "Visible" -> Ok(EventType(8))
      [] OTHER -> Err("VariantNotFound")

\* enum Mouse: lines are signed, columns and counts unsigned
Mice ==
    { <<"ScrollUp", 0>>, <<"ScrollUp", 3>>, <<"ScrollDown", 1>>,
      <<"LeftClick", -1, 0>>, <<"LeftClick", 2, 5>>, <<"RightClick", 0, 0>>,
      <<"Hold", -2, 7>>, <<"Release", 1, 1>> }

\* enum CopyDestination
CopyDestinations == { "Command", "Primary", "System" }

\* struct TabInfo
TabInfos ==
    { [ position |-> p,
        name |-> n,
        active |-> a,
        panes_to_hide |-> 0,
        is_fullscreen_active |-> FALSE,
        is_sync_panes_active |-> FALSE,
        are_floating_panes_visible |-> TRUE,
        other_focused_clients |-> c ] :
          p \in 0..1, n \in { "Tab #1", "" }, a \in BOOLEAN, c \in { << >>, <<2, 3>> } }

\* Events of every variant, each with several payloads
Events ==
    { <<"ModeUpdate", m>> : m \in { i \in ModeInfos : Len(i.keybinds) <= 1 } }
      \cup { <<"TabUpdate", << >> >> }
      \cup { <<"TabUpdate", <<t>> >> : t \in TabInfos }
      \cup { <<"Key", k>> : k \in CmpKeys }
      \cup { <<"Mouse", m>> : m \in Mice }
      \cup { <<"Timer", t>> : t \in 0..2 }
      \cup { <<"CopyToClipboard", d>> : d \in CopyDestinations }
      \cup { <<"SystemClipboardFailure">>, <<"InputReceived">> }
      \cup { <<"Visible", b>> : b \in BOOLEAN }

(***************************************************************************)
(* Wire forms (serde)                                                      *)
(*                                                                         *)
(* A serialized value is <<"str", s>> for a string, <<"u8", n>> for a      *)
(* number and <<"variant", name, w>> for an enum variant with a payload.   *)
(* A char is serialized as the string of that one character, a variant     *)
(* without payload as the string of its identifier.                        *)
(***************************************************************************)
char_serialize(c) == <<"str", c>>

\* a char is read from a string of exactly one character
char_deserialize(w) ==
    IF w[1] = "str" /\ Len(w[2]) = 1 THEN Ok(w[2]) ELSE Err("invalid type")

\* with a fault: the directions renamed to their initials
Direction_name_initial(d) ==
    CASE d = "Left" -> "L"
      [] d = "Right" -> "R"
      [] d = "Up" -> "U"
      [] d = "Down" -> "D"

\* the name serde gives each variant of Direction: its identifier
Direction_name(d) ==
    CASE d = "Left" -> "Left"
      [] d = "Right" -> "Right"
      [] d = "Up" -> "Up"
      [] d = "Down" -> "Down"

Direction_serialize(d) == <<"str", Direction_name(d)>>

Direction_deserialize(w) ==
    IF w[1] = "str" /\ \E d \in Directions : Direction_name(d) = w[2]
    THEN Ok(CHOOSE d \in Directions : Direction_name(d) = w[2])
    ELSE Err("unknown variant")

\* #[serde(untagged)]: the payload alone is written
CharOrArrow_serialize(x) ==
    CASE x[1] = "Char" -> char_serialize(x[2])
      [] x[1] = "Direction" -> Direction_serialize(x[2])

\* #[serde(untagged)]: the variants are tried in declaration order and the
\* first one that reads the value wins
CharOrArrow_deserialize(w) ==
    IF char_deserialize(w)[1] = "Ok" THEN Ok(<<"Char", char_deserialize(w)[2]>>)
    ELSE IF Direction_deserialize(w)[1] = "Ok"
    THEN Ok(<<"Direction", Direction_deserialize(w)[2]>>)
    ELSE Err("data did not match any variant of untagged enum CharOrArrow")

\* #[derive(Serialize)] on Key: externally tagged
Key_serialize(key) ==
    CASE key[1] = "F" -> <<"variant", "F", <<"u8", key[2]>>>>
      [] key[1] = "Char" -> <<"variant", "Char", char_serialize(key[2])>>
      [] key[1] = "Alt" -> <<"variant", "Alt", CharOrArrow_serialize(key[2])>>
      [] key[1] = "Ctrl" -> <<"variant", "Ctrl", char_serialize(key[2])>>
      [] OTHER -> <<"str", key[1]>>

\* #[derive(Deserialize)] on Key
Key_deserialize(w) ==
    CASE w[1] = "str" ->
           IF <<w[2]>> \in UnitKeys THEN Ok(<<w[2]>>) ELSE Err("unknown variant")
      [] w[1] = "variant" /\ w[2] = "F" ->
           IF w[3][1] = "u8" /\ w[3][2] \in 0..U8Max
           THEN Ok(<<"F", w[3][2]>>) ELSE Err("invalid type")
      [] w[1] = "variant" /\ w[2] \in {"Char", "Ctrl"} ->
           IF char_deserialize(w[3])[1] = "Ok"
           THEN Ok(<<w[2], char_deserialize(w[3])[2]>>) ELSE char_deserialize(w[3])
      [] w[1] = "variant" /\ w[2] = "Alt" ->
           IF CharOrArrow_deserialize(w[3])[1] = "Ok"
           THEN Ok(<<"Alt", CharOrArrow_deserialize(w[3])[2]>>)
           ELSE CharOrArrow_deserialize(w[3])
      [] OTHER -> Err("unknown variant")

\* strings a deserializer may be handed in place of a CharOrArrow
Wires ==
    { CharOrArrow_serialize(x) : x \in CharOrArrows }
      \cup { <<"str", s>> : s \in { "", "left", "up", "Lef", "Downn", "ab" } }
      \cup { <<"u8", 7>> }

(***************************************************************************)
(* Strings handed to the parsers                                           *)
(***************************************************************************)
LowerAlpha ==
    << "a", "b", "c", "d", "e", "f", "g", "h", "i", "j", "k", "l", "m", "n",
       "o", "p", "q", "r", "s", "t", "u", "v", "w", "x", "y", "z" >>

UpperAlpha ==
    << "A", "B", "C", "D", "E", "F", "G", "H", "I", "J", "K", "L", "M", "N",
       "O", "P", "Q", "R", "S", "T", "U", "V", "W", "X", "Y", "Z" >>

\* ASCII case mapping of one character
ToLowerChar(c) ==
    IF \E i \in 1..Len(UpperAlpha) : UpperAlpha[i] = c
    THEN LowerAlpha[CHOOSE i \in 1..Len(UpperAlpha) : UpperAlpha[i] = c]
    ELSE c

ToUpperChar(c) ==
    IF \E i \in 1..Len(LowerAlpha) : LowerAlpha[i] = c
    THEN UpperAlpha[CHOOSE i \in 1..Len(LowerAlpha) : LowerAlpha[i] = c]
    ELSE c

\* a sequence of characters, lowercased, uppercased, and with only the
\* character at position k uppercased
ToLower(cs) == [ i \in 1..Len(cs) |-> ToLowerChar(cs[i]) ]

ToUpper(cs) == [ i \in 1..Len(cs) |-> ToUpperChar(cs[i]) ]

UpperAt(cs, k) ==
    [ i \in 1..Len(cs) |-> IF i = k THEN ToUpperChar(cs[i]) ELSE ToLowerChar(cs[i]) ]

\* the string made of a sequence of characters
RECURSIVE Concat(_)
Concat(cs) == IF cs = << >> THEN "" ELSE cs[1] \o Concat(Tail(cs))

\* the identifier of each variant of InputMode, character by character
NameChars(mode) ==
    CASE mode = "Normal" -> << "N", "o", "r", "m", "a", "l" >>
      [] mode = "Locked" -> << "L", "o", "c", "k", "e", "d" >>
      [] mode = "Resize" -> << "R", "e", "s", "i", "z", "e" >>
      [] mode = "Pane" -> << "P", "a", "n", "e" >>
      [] mode = "Tab" -> << "T", "a", "b" >>
      [] mode = "Scroll" -> << "S", "c", "r", "o", "l", "l" >>
      [] mode = "EnterSearch" -> << "E", "n", "t", "e", "r", "S", "e", "a", "r", "c", "h" >>
      [] mode = "Search" -> << "S", "e", "a", "r", "c", "h" >>
      [] mode = "RenameTab" -> << "R", "e", "n", "a", "m", "e", "T", "a", "b" >>
      [] mode = "RenamePane" -> << "R", "e", "n", "a", "m", "e", "P", "a", "n", "e" >>
      [] mode = "Session" -> << "S", "e", "s", "s", "i", "o", "n" >>
      [] mode = "Move" -> << "M", "o", "v", "e" >>
      [] mode = "Prompt" -> << "P", "r", "o", "m", "p", "t" >>
      [] mode = "Tmux" -> << "T", "m", "u", "x" >>

\* every spelling of a mode's name that differs from it in case at most:
\* the identifier, all lowercase, all uppercase, one letter uppercased
ModeSpellings(mode) ==
    { Concat(NameChars(mode)), Concat(ToLower(NameChars(mode))),
      Concat(ToUpper(NameChars(mode))) }
      \cup { Concat(UpperAt(NameChars(mode), k)) : k \in 1..Len(NameChars(mode)) }

\* strings that are no spelling of a mode
OtherStrings ==
    { "", " ", "normal ", " normal", "norma", "normall", "tmu", "enter_search",
      "enter-search", "rename", "default", "Key", "Mouse", "visible", "copytoclipboard" }

ModeStrings == UNION { ModeSpellings(m) : m \in InputModes } \cup OtherStrings

EventTypeStrings ==
    { EventVariants[i] : i \in 1..Len(EventVariants) } \cup ModeStrings

\* the types of data.rs that implement Default
DefaultTypes ==
    { "InputMode", "ThemeHue", "PaletteColor", "PaletteSource", "Palette", "Style",
      "ModeInfo", "PluginCapabilities" }

\* T::default()
Default(ty) ==
    CASE ty = "InputMode" -> InputMode_default
      [] ty = "ThemeHue" -> ThemeHue_default
      [] ty = "PaletteColor" -> PaletteColor_default
      [] ty = "PaletteSource" -> PaletteSource_default
      [] ty = "Palette" -> Palette_default
      [] ty = "Style" -> Style_default
      [] ty = "ModeInfo" -> ModeInfo_default
      [] ty = "PluginCapabilities" -> PluginCapabilities_default

(***************************************************************************)
(* The calls: one function of data.rs is called on inputs of the sets      *)
(* above, and returns.                                                     *)
(***************************************************************************)
Init ==
    /\ op = "none"
    /\ arg = << >>
    /\ res = << >>

ClientIdToColors ==
    /\ op = "none"
    /\ \E id \in ClientIds, p \in Palettes :
        /\ op' = "client_id_to_colors"
        /\ arg' = <<id, p>>
        /\ res' = client_id_to_colors(id, p)

SingleClientColor ==
    /\ op = "none"
    /\ \E p \in Palettes :
        /\ op' = "single_client_color"
        /\ arg' = p
        /\ res' = single_client_color(p)

DisplayKey ==
    /\ op = "none"
    /\ \E k \in Keys :
        /\ op' = "Key::fmt"
        /\ arg' = k
        /\ res' = Display_Key(k)

DisplayCharOrArrow ==
    /\ op = "none"
    /\ \E x \in CharOrArrows :
        /\ op' = "CharOrArrow::fmt"
        /\ arg' = x
        /\ res' = Display_CharOrArrow(x)

DisplayDirection ==
    /\ op = "none"
    /\ \E d \in Directions :
        /\ op' = "Direction::fmt"
        /\ arg' = d
        /\ res' = Display_Direction(d)

KeyCmp ==
    /\ op = "none"
    /\ \E a \in CmpKeys, b \in CmpKeys :
        /\ op' = "Key::cmp"
        /\ arg' = <<a, b>>
        /\ res' = Key_cmp(a, b)

FromStr ==
    /\ op = "none"
    /\ \E s \in ModeStrings :
        /\ op' = "InputMode::from_str"
        /\ arg' = s
        /\ res' = from_str(s)

DeserializeInputMode ==
    /\ op = "none"
    /\ \E s \in ModeStrings :
        /\ op' = "InputMode::deserialize"
        /\ arg' = s
        /\ res' = InputMode_deserialize(s)

GetKeybindsForMode ==
    /\ op = "none"
    /\ \E mi \in ModeInfos, m \in KeybindModes \cup { "Locked", "Search" } :
        /\ op' = "get_keybinds_for_mode"
        /\ arg' = <<mi, m>>
        /\ res' = get_keybinds_for_mode(mi, m)

GetModeKeybinds ==
    /\ op = "none"
    /\ \E mi \in ModeInfos :
        /\ op' = "get_mode_keybinds"
        /\ arg' = mi
        /\ res' = get_mode_keybinds(mi)

EventTypeFrom ==
    /\ op = "none"
    /\ \E e \in Events :
        /\ op' = "EventType::from"
        /\ arg' = e
        /\ res' = EventType_from(e)

EventTypeFromStr ==
    /\ op = "none"
    /\ \E s \in EventTypeStrings :
        /\ op' = "EventType::from_str"
        /\ arg' = s
        /\ res' = EventType_from_str(s)

DefaultConstruct ==
    /\ op = "none"
    /\ \E ty \in DefaultTypes :
        /\ op' = "default"
        /\ arg' = ty
        /\ res' = Default(ty)

CharOrArrowRoundTrip ==
    /\ op = "none"
    /\ \E x \in CharOrArrows :
        /\ op' = "CharOrArrow::round_trip"
        /\ arg' = x
        /\ res' = [ wire |-> CharOrArrow_serialize(x), back |-> CharOrArrow_deserialize(CharOrArrow_serialize(x)) ]

CharOrArrowDeserialize ==
    /\ op = "none"
    /\ \E w \in Wires :
        /\ op' = "CharOrArrow::deserialize"
        /\ arg' = w
        /\ res' = CharOrArrow_deserialize(w)

KeyRoundTrip ==
    /\ op = "none"
    /\ \E k \in Keys :
        /\ op' = "Key::round_trip"
        /\ arg' = k
        /\ res' = [ wire |-> Key_serialize(k), back |-> Key_deserialize(Key_serialize(k)) ]

Return ==
    /\ op # "none"
    /\ op' = "none"
    /\ arg' = << >>
    /\ res' = << >>

Next ==
    \/ ClientIdToColors
    \/ SingleClientColor
    \/ DisplayKey
    \/ DisplayCharOrArrow
    \/ DisplayDirection
    \/ KeyCmp
    \/ FromStr
    \/ DeserializeInputMode
    \/ GetKeybindsForMode
    \/ GetModeKeybinds
    \/ EventTypeFrom
    \/ EventTypeFromStr
    \/ DefaultConstruct
    \/ CharOrArrowRoundTrip
    \/ CharOrArrowDeserialize
    \/ KeyRoundTrip
    \/ Return

Spec == Init /\ [][Next]_vars

C1_PrimaryTable ==
    << "magenta", "blue", "purple", "yellow", "cyan", "gold", "red", "silver",
       "pink", "brown" >>

(***************************************************************************)
(* C1: client_id_to_colors(id, palette) is Some((primary, palette.black))  *)
(* with primary read from the table 1->magenta, 2->blue, 3->purple,        *)
(* 4->yellow, 5->cyan, 6->gold, 7->red, 8->silver, 9->pink, 10->brown, and *)
(* None for id 0 and for every id >= 11.                                   *)
(***************************************************************************)
C1_ClientColors ==
    op = "client_id_to_colors" =>
        LET id == arg[1]
            palette == arg[2]
        IN  /\ id \in 1..Len(C1_PrimaryTable) =>
                res = <<"Some", <<palette[C1_PrimaryTable[id]], palette["black"]>>>>
            /\ (id = 0 \/ id >= 11) => res = <<"None">>
            /\ res[1] = "Some" => res[2][2] = palette["black"]

\* a call with the last id of the table on a palette of distinct colours, and
\* a call with the first id that has no colour
C1_Witness ==
    /\ op = "client_id_to_colors"
    /\ arg[1] = 10
    /\ arg[2] = ShiftPalette(1)
    /\ res = <<"Some", <<EightBit(20), EightBit(6)>>>>

C2_Canonical(mode) == Concat(ToLower(NameChars(mode)))

(***************************************************************************)
(* C2: InputMode::from_str succeeds exactly on the lowercased name of a    *)
(* mode and returns that mode; on every other string, a capitalised or     *)
(* mixed-case spelling of a mode included, it returns an error that        *)
(* carries the input unchanged, and never a default mode.                  *)
(***************************************************************************)
C2_FromStrExact ==
    /\ \A m \in InputModes : Concat(NameChars(m)) = m
    /\ op = "InputMode::from_str" =>
        LET named == { m \in InputModes : arg = C2_Canonical(m) }
        IN  /\ Cardinality(named) <= 1
            /\ \A m \in named : res = <<"Ok", m>>
            /\ named = {} => res = <<"Err", arg>>

\* the capitalised spelling of an accepted alias is rejected, the error
\* holding the input
C2_Witness ==
    /\ op = "InputMode::from_str"
    /\ arg = "Normal"
    /\ res = <<"Err", "Normal">>

C3_Hits(keybinds, m) == { i \in 1..Len(keybinds) : keybinds[i][1] = m }

C3_FirstMatch(keybinds, m) ==
    IF C3_Hits(keybinds, m) = {} THEN << >>
    ELSE keybinds[CHOOSE i \in C3_Hits(keybinds, m) :
                    \A j \in C3_Hits(keybinds, m) : i <= j][2]

(***************************************************************************)
(* C3: get_keybinds_for_mode(m) returns the bindings of the first entry of *)
(* keybinds whose mode is m, also when later entries of the same mode hold *)
(* other bindings, and the empty sequence when no entry has mode m;        *)
(* get_mode_keybinds() returns what get_keybinds_for_mode(self.mode) does. *)
(***************************************************************************)
C3_FirstMatchWins ==
    /\ op = "get_keybinds_for_mode" => res = C3_FirstMatch(arg[1].keybinds, arg[2])
    /\ op = "get_mode_keybinds" => res = C3_FirstMatch(arg.keybinds, arg.mode)

\* two entries of the mode asked for, with different bindings, behind an
\* entry of another mode: the first of the two is returned
C3_Witness ==
    /\ op = "get_keybinds_for_mode"
    /\ LET k == arg[1].keybinds
       IN  /\ Len(k) = 3
           /\ k[1][1] # arg[2]
           /\ k[2][1] = arg[2]
           /\ k[3][1] = arg[2]
           /\ k[2][2] # k[3][2]
           /\ k[2][2] # << >>
           /\ res = k[2][2]

C4_Glyph(d) ==
    CASE d = "Left" -> "←" [] d = "Right" -> "→" [] d = "Up" -> "↑" [] d = "Down" -> "↓"

C4_CharLabel(c) ==
    IF c = "\n" THEN "ENTER" ELSE IF c = "\t" THEN "TAB" ELSE IF c = " " THEN "SPACE" ELSE c

C4_Label(key) ==
    CASE key[1] = "Backspace" -> "BACKSPACE"
      [] key[1] \in { "Left", "Right", "Up", "Down" } -> C4_Glyph(key[1])
      [] key[1] = "Home" -> "HOME"
      [] key[1] = "End" -> "END"
      [] key[1] = "PageUp" -> "PgUp"
      [] key[1] = "PageDown" -> "PgDn"
      [] key[1] = "BackTab" -> "TAB"
      [] key[1] = "Delete" -> "DEL"
      [] key[1] = "Insert" -> "INS"
      [] key[1] = "F" -> "F" \o ToString(key[2])
      [] key[1] = "Null" -> "NULL"
      [] key[1] = "Esc" -> "ESC"
      [] key[1] = "Char" -> C4_CharLabel(key[2])
      [] key[1] = "Ctrl" -> "Ctrl+" \o C4_CharLabel(key[2])
      [] key[1] = "Alt" ->
           "Alt+" \o (IF key[2][1] = "Char" THEN C4_CharLabel(key[2][2])
                      ELSE C4_Glyph(key[2][2]))

(***************************************************************************)
(* C4: rendering a Key follows the label table for every variant, and      *)
(* Ctrl(c) is "Ctrl+" followed by the label of Char(c), Alt(x) is "Alt+"   *)
(* followed by the label of x, so that newline, tab and space are never    *)
(* written raw inside a Ctrl or Alt label.                                 *)
(***************************************************************************)
C4_KeyLabels ==
    op = "Key::fmt" =>
        /\ res = C4_Label(arg)
        /\ arg[1] = "Ctrl" => res = "Ctrl+" \o Display_Key(<<"Char", arg[2]>>)
        /\ arg[1] = "Alt" => res = "Alt+" \o Display_CharOrArrow(arg[2])
        /\ arg[1] = "Ctrl" /\ arg[2] \in { "\n", "\t", " " } => res # "Ctrl+" \o arg[2]
        /\ arg[1] = "Alt" /\ arg[2][1] = "Char" /\ arg[2][2] \in { "\n", "\t", " " } =>
              res # "Alt+" \o arg[2][2]

\* Ctrl with a newline is labelled with the name of the key
C4_Witness ==
    /\ op = "Key::fmt"
    /\ arg = <<"Ctrl", "\n">>
    /\ res = "Ctrl+ENTER"

C5_Rank(tag) ==
    CASE tag = "PageDown" -> 1 [] tag = "PageUp" -> 2 [] tag = "Left" -> 3
      [] tag = "Down" -> 4 [] tag = "Up" -> 5 [] tag = "Right" -> 6
      [] tag = "Home" -> 7 [] tag = "End" -> 8 [] tag = "Backspace" -> 9
      [] tag = "Delete" -> 10 [] tag = "Insert" -> 11 [] tag = "F" -> 12
      [] tag = "Char" -> 13 [] tag = "Alt" -> 14 [] tag = "Ctrl" -> 15
      [] tag = "BackTab" -> 16 [] tag = "Null" -> 17 [] tag = "Esc" -> 18

C5_DirectionRank(d) ==
    CASE d = "Left" -> 1 [] d = "Right" -> 2 [] d = "Up" -> 3 [] d = "Down" -> 4

\* the rank of a payload within its variant: Alt ranks a Direction above
\* every character
C5_PayloadRank(key) ==
    CASE key[1] = "F" -> key[2]
      [] key[1] \in { "Char", "Ctrl" } -> CharCode(key[2])
      [] key[1] = "Alt" ->
           IF key[2][1] = "Char" THEN CharCode(key[2][2])
           ELSE 1114112 + C5_DirectionRank(key[2][2])
      [] OTHER -> 0

C5_Below(a, b) ==
    \/ C5_Rank(a[1]) < C5_Rank(b[1])
    \/ C5_Rank(a[1]) = C5_Rank(b[1]) /\ C5_PayloadRank(a) < C5_PayloadRank(b)

C5_Flip(o) == IF o = "Less" THEN "Greater" ELSE IF o = "Greater" THEN "Less" ELSE "Equal"

(***************************************************************************)
(* C5: the comparison of Keys is a strict total order, lexicographic by    *)
(* declaration order: PageDown < PageUp < Left < Down < Up < Right < Home  *)
(* < End < Backspace < Delete < Insert < F < Char < Alt < Ctrl < BackTab < *)
(* Null < Esc whatever the payload, and by payload within a variant (F by  *)
(* number, Char and Ctrl by character, Alt with every Char below every     *)
(* Direction and Left < Right < Up < Down); two keys compare equal only    *)
(* when they are the same key.                                             *)
(***************************************************************************)
C5_KeyOrder ==
    op = "Key::cmp" =>
        LET a == arg[1]
            b == arg[2]
        IN  /\ res \in { "Less", "Equal", "Greater" }
            /\ (res = "Less") <=> C5_Below(a, b)
            /\ (res = "Equal") <=> (a = b)
            /\ Key_cmp(b, a) = C5_Flip(res)
            /\ \A c \in CmpKeys :
                  res = "Less" /\ Key_cmp(b, c) = "Less" => Key_cmp(a, c) = "Less"

\* Down is below Right among the keys, although Right is below Down among
\* the directions
C5_Witness ==
    /\ op = "Key::cmp"
    /\ arg = << <<"Down">>, <<"Right">> >>
    /\ res = "Less"
    /\ Direction_cmp("Right", "Down") = "Less"

C6_Accepted == { s \in ModeStrings : from_str(s)[1] = "Ok" }

(***************************************************************************)
(* C6: InputMode is a closed set of exactly n named modes (Normal, Locked, *)
(* Resize, Pane, Tab, Scroll, EnterSearch, Search, RenameTab, RenamePane,  *)
(* Session, Move, Prompt, Tmux), and the set of strings on which           *)
(* InputMode::from_str succeeds has exactly n elements, one canonical      *)
(* lowercase alias per mode.                                               *)
(***************************************************************************)
C6_ModeCount(n) ==
    op = "InputMode::from_str" =>
        /\ Len(InputModeVariants) = n
        /\ Cardinality(InputModes) = n
        /\ Cardinality(C6_Accepted) = n
        /\ \A m \in InputModes :
              /\ Cardinality({ s \in ModeStrings : from_str(s) = <<"Ok", m>> }) = 1
              /\ \A s \in ModeStrings :
                    from_str(s) = <<"Ok", m>> => s = Concat(ToLower(NameChars(m)))
        /\ res[1] = "Ok" => arg \in C6_Accepted /\ res[2] \in InputModes

\* C6 with the count of 13 that the specification gives: refuted
C6_ThirteenModes == C6_ModeCount(13)

\* C6 with the count of 14: exactly 14 modes, exactly 14 accepted strings, one
\* canonical lowercase alias per mode
C6_FourteenModes == C6_ModeCount(14)

\* the alias of the fourteenth mode is accepted
C6_Witness ==
    /\ op = "InputMode::from_str"
    /\ arg = "tmux"
    /\ res = <<"Ok", InputModeVariants[14]>>

C7_Aliases == { serde_alias(m) : m \in InputModes }

(***************************************************************************)
(* C7: the aliases accepted when InputMode is deserialized are the ones of *)
(* InputMode::from_str: from_str(s) = Ok(m) exactly when s is the serde    *)
(* alias of m, so no alias is accepted on one path and rejected on the     *)
(* other, and none names different modes on the two paths.                 *)
(***************************************************************************)
C7_AliasesAgree ==
    /\ op = "InputMode::from_str" =>
          /\ \A m \in InputModes : (res = <<"Ok", m>>) <=> (arg = serde_alias(m))
          /\ (res[1] = "Ok") <=> (arg \in C7_Aliases)
          /\ arg \in C7_Aliases => InputMode_deserialize(arg) = res
    /\ op = "InputMode::deserialize" /\ arg \in C7_Aliases =>
          /\ res = from_str(arg)
          /\ \A m \in InputModes : arg = serde_alias(m) => res = <<"Ok", m>>

\* "entersearch" names EnterSearch on the parsing path as it does in the
\* serde attribute
C7_Witness ==
    /\ op = "InputMode::from_str"
    /\ arg = "entersearch"
    /\ res = <<"Ok", "EnterSearch">>
    /\ InputMode_deserialize("entersearch") = <<"Ok", "EnterSearch">>

(***************************************************************************)
(* C8: the untagged wire forms of CharOrArrow do not collide: Char(c) is   *)
(* written as a string of one character, Direction(d) as one of the names  *)
(* Left, Right, Up, Down, the two differ for every c and d, and reading    *)
(* back with Char tried first and Direction second returns the value that  *)
(* was written, for every CharOrArrow and so for every Key::Alt.           *)
(***************************************************************************)
C8_NoCollision ==
    /\ op = "CharOrArrow::round_trip" =>
          /\ res.back = <<"Ok", arg>>
          /\ arg[1] = "Char" => res.wire = <<"str", arg[2]>> /\ Len(res.wire[2]) = 1
          /\ arg[1] = "Direction" =>
                /\ res.wire[1] = "str"
                /\ res.wire[2] = arg[2]
                /\ res.wire[2] \in { "Left", "Right", "Up", "Down" }
          /\ \A y \in CharOrArrows : y # arg => CharOrArrow_serialize(y) # res.wire
    /\ op = "Key::round_trip" /\ arg[1] = "Alt" => res.back = <<"Ok", arg>>
    /\ op = "CharOrArrow::deserialize" =>
          \A x \in CharOrArrows : arg = CharOrArrow_serialize(x) => res = <<"Ok", x>>

\* a direction whose initial is itself a character of the model comes back
\* as a direction
C8_Witness ==
    /\ op = "CharOrArrow::round_trip"
    /\ arg = <<"Direction", "Up">>
    /\ res.wire = <<"str", "Up">>
    /\ res.back = <<"Ok", <<"Direction", "Up">>>>
    /\ <<"Char", "U">> \in CharOrArrows

C9_Names ==
    { "ModeUpdate", "TabUpdate", "Key", "Mouse", "Timer", "CopyToClipboard",
      "SystemClipboardFailure", "InputReceived", "Visible" }

(***************************************************************************)
(* C9: the EventType of an Event is the discriminant of the same name      *)
(* whatever the payload, and an EventType round-trips through its name:    *)
(* parsing the name gives the EventType back, different EventTypes have    *)
(* different names, and a string outside the nine names does not parse.    *)
(***************************************************************************)
C9_EventTypes ==
    /\ op = "EventType::from" =>
          /\ res \in EventTypes
          /\ arg[1] \in C9_Names
          /\ EventType_name(res) = arg[1]
          /\ EventType_from_str(EventType_name(res)) = <<"Ok", res>>
          /\ \A e \in Events : e[1] = arg[1] => EventType_from(e) = res
          /\ \A t \in EventTypes : t # res => EventType_name(t) # EventType_name(res)
    /\ op = "EventType::from_str" =>
          /\ arg \in C9_Names => res[1] = "Ok" /\ EventType_name(res[2]) = arg
          /\ arg \notin C9_Names => res[1] = "Err"

\* a clipboard event and its discriminant
C9_Witness ==
    /\ op = "EventType::from"
    /\ arg = <<"CopyToClipboard", "System">>
    /\ EventType_name(res) = "CopyToClipboard"

C10_Zero == <<"EightBit", 0>>

C10_ColourSlots(palette) == DOMAIN palette \ { "source", "theme_hue" }

C10_PaletteDefault(palette, slots) ==
    /\ palette.source = "Default"
    /\ palette.theme_hue = "Dark"
    /\ Cardinality(C10_ColourSlots(palette)) = slots
    /\ \A f \in C10_ColourSlots(palette) : palette[f] = C10_Zero

(***************************************************************************)
(* C10: default construction needs no input and is field-wise:             *)
(* PaletteColor::default() is indexed colour 0; Palette::default() has     *)
(* source Default, theme_hue Dark and every colour slot equal to indexed   *)
(* colour 0; ModeInfo::default() has mode Normal, no keybinds, the default *)
(* Style (default Palette, rounded_corners false), arrow_fonts = true and  *)
(* no session name, so get_mode_keybinds() on it is empty; `slots` is the  *)
(* number of colour slots of Palette.                                      *)
(***************************************************************************)
C10_DefaultsWith(slots) ==
    /\ op = "default" /\ arg = "PaletteColor" => res = C10_Zero
    /\ op = "default" /\ arg = "Palette" => C10_PaletteDefault(res, slots)
    /\ op = "default" /\ arg = "Style" =>
          C10_PaletteDefault(res.colors, slots) /\ res.rounded_corners = FALSE
    /\ op = "default" /\ arg = "ModeInfo" =>
          /\ res.mode = "Normal"
          /\ res.keybinds = << >>
          /\ C10_PaletteDefault(res.style.colors, slots)
          /\ res.style.rounded_corners = FALSE
          /\ res.capabilities = [ arrow_fonts |-> TRUE ]
          /\ res.session_name = <<"None">>
          /\ get_mode_keybinds(res) = << >>
    /\ op = "get_mode_keybinds" /\ arg.keybinds = << >> => res = << >>

\* C10 with the 19 colour slots that the specification gives: refuted
C10_NineteenSlots == C10_DefaultsWith(19)

\* C10 with 17 colour slots: the defaults are field-wise, every one of the 17
\* colour slots of the default Palette is indexed colour 0
C10_Defaults == C10_DefaultsWith(17)

\* the default ModeInfo, down to the palette inside its style
C10_Witness ==
    /\ op = "default"
    /\ arg = "ModeInfo"
    /\ res.mode = "Normal"
    /\ res.style.colors.theme_hue = "Dark"
    /\ res.style.colors.brown = <<"EightBit", 0>>

====
